---- MODULE Spec2Model ----
(***************************************************************************)
(* Model of dweather_client/arithmetic.py: the term aggregation of a daily *)
(* rainfall series (sum_period_rainfall), its replay over historical years *)
(* (build_historical_rainfall_dict) and the windowed reductions of a dense *)
(* date-indexed table (sum_period_df, avg_period_df).                      *)
(*                                                                         *)
(* Dates are records [year, month, day] of the proleptic Gregorian         *)
(* calendar, as datetime.date.  A rainfall dict is a date-ascending        *)
(* mapping; it is represented by its first key, its last key and the       *)
(* pattern its values follow.  An optional argument (daily_cap, end_year)  *)
(* is a sequence of length 0 (None) or 1.                                  *)
(***************************************************************************)
EXTENDS Integers, Sequences, FiniteSets, TLC

\* ------------------------------------------------------------ calendar

IsLeap(y) == (y % 4 = 0 /\ y % 100 # 0) \/ y % 400 = 0

DaysInMonth(y, m) ==
    IF m = 2 THEN (IF IsLeap(y) THEN 29 ELSE 28)
    ELSE IF m \in {4, 6, 9, 11} THEN 30 ELSE 31

MkDate(y, m, d) == [year |-> y, month |-> m, day |-> d]

IsValidDate(y, m, d) == m \in 1..12 /\ d >= 1 /\ d <= DaysInMonth(y, m)

RECURSIVE DaysBeforeMonth(_, _)
DaysBeforeMonth(y, m) ==
    IF m <= 1 THEN 0 ELSE DaysBeforeMonth(y, m - 1) + DaysInMonth(y, m - 1)

\* datetime.date.toordinal: the number of the day, 0001-01-01 being day 1.
ToOrdinal(dt) ==
    LET p == dt.year - 1
    IN  p * 365 + (p \div 4) - (p \div 100) + (p \div 400)
        + DaysBeforeMonth(dt.year, dt.month) + dt.day

\* date + timedelta(days=1)
NextDay(dt) ==
    IF dt.day < DaysInMonth(dt.year, dt.month)
    THEN MkDate(dt.year, dt.month, dt.day + 1)
    ELSE IF dt.month < 12 THEN MkDate(dt.year, dt.month + 1, 1)
    ELSE MkDate(dt.year + 1, 1, 1)

\* date + timedelta(days=n), n >= 0
RECURSIVE AddDays(_, _)
AddDays(dt, n) == IF n <= 0 THEN dt ELSE AddDays(NextDay(dt), n - 1)

\* date - timedelta(days=1)
PrevDay(dt) ==
    IF dt.day > 1 THEN MkDate(dt.year, dt.month, dt.day - 1)
    ELSE IF dt.month > 1
         THEN MkDate(dt.year, dt.month - 1, DaysInMonth(dt.year, dt.month - 1))
    ELSE MkDate(dt.year - 1, 12, 31)

\* date.replace(year=y) raises ValueError when the month/day is no date of y.
ReplaceYearOk(dt, y) == IsValidDate(y, dt.month, dt.day)

ReplaceYear(dt, y) == MkDate(y, dt.month, dt.day)

\* ------------------------------------------------------------ bounds & inputs

HISTORICAL_START_YEAR == 1981

\* The longest span, in days, between a caller's start_date and end_date.
MaxTermSpan == 11

\* The most days the preliminary revisions reach beyond the final one.
MaxPrelimDays == 3

Years == 2000..2002

SeriesFirst == MkDate(2000, 1, 1)

StartDates ==
    { MkDate(2000, 2, 27), MkDate(2000, 2, 29), MkDate(2000, 12, 25),
      MkDate(2001, 2, 26), MkDate(2002, 6, 1), MkDate(2002, 6, 9) }

EndDates ==
    { MkDate(2000, 2, 29), MkDate(2000, 3, 2), MkDate(2001, 1, 5),
      MkDate(2001, 3, 2), MkDate(2002, 6, 10) }

FinalLastDates ==
    { MkDate(2000, 12, 28), MkDate(2000, 12, 31), MkDate(2001, 2, 25),
      MkDate(2002, 6, 5), MkDate(2002, 6, 10) }

Caps == { <<>>, <<0>>, <<3>> }

\* The daily values of a series alternate between the two entries.
ValuePatterns == { <<5, 5>>, <<2, 7>> }

FinalRevs == { <<>>, <<"final">> }

StartYears == { HISTORICAL_START_YEAR } \cup Years

EndYears == { <<>> } \cup { <<y>> : y \in Years }

Args ==
    { a \in [ start_date : StartDates, end_date : EndDates, daily_cap : Caps,
              use_prelim : BOOLEAN, final_rev : FinalRevs,
              start_year : StartYears, end_year : EndYears ] :
        /\ ToOrdinal(a.start_date) <= ToOrdinal(a.end_date)
        /\ ToOrdinal(a.end_date) - ToOrdinal(a.start_date) <= MaxTermSpan }

\* What the data source holds for the grid cell: the final revision runs
\* through finalLast, the preliminary ones prelimDays further.
Sources ==
    [ finalLast : FinalLastDates, prelimDays : 1..MaxPrelimDays,
      pattern : ValuePatterns ]

\* The most years sum_period_df and avg_period_df look back.
MaxLookback == 3

PeriodStarts ==
    { MkDate(2019, 12, 25), MkDate(2020, 2, 27), MkDate(2020, 2, 29),
      MkDate(2020, 6, 1) }

PeriodEnds ==
    { MkDate(2020, 1, 5), MkDate(2020, 2, 29), MkDate(2020, 3, 2),
      MkDate(2020, 6, 10) }

Perils == { "rain", "temp" }

DfArgs ==
    { a \in [ ps : PeriodStarts, pe : PeriodEnds, yrs : 0..MaxLookback,
              peril : Perils ] :
        /\ ToOrdinal(a.ps) <= ToOrdinal(a.pe)
        /\ ToOrdinal(a.pe) - ToOrdinal(a.ps) <= MaxTermSpan }

\* A dense daily table: one row per day from first through last.
Tables ==
    [ first : { MkDate(2017, 1, 1), MkDate(2018, 1, 1), MkDate(2018, 6, 5) },
      last : { MkDate(2019, 6, 5), MkDate(2019, 12, 31), MkDate(2020, 12, 31) },
      pattern : ValuePatterns,
      columns : { {"rain"}, {"rain", "temp"} } ]

VARIABLES args, source, sumResult, histResult,
          dfArgs, df, sumDfResult, avgDfResult

vars == <<args, source, sumResult, histResult,
          dfArgs, df, sumDfResult, avgDfResult>>

\* ------------------------------------------------------------ collaborators

MkDict(first, last, pattern) == [first |-> first, last |-> last, pattern |-> pattern]

\* date in rainfall_dict
InDict(dict, dt) ==
    ToOrdinal(dict.first) <= ToOrdinal(dt) /\ ToOrdinal(dt) <= ToOrdinal(dict.last)

\* rainfall_dict[date]
Lookup(dict, dt) == dict.pattern[(ToOrdinal(dt) % 2) + 1]

\* list(rainfall_dict)[-1]
LastKey(dict) == dict.last

\* http_client.get_rainfall_dict: the authoritative series.
GetRainfallDict(src) == MkDict(SeriesFirst, src.finalLast, src.pattern)

\* get_rev_rainfall_dict, the revision fallback (arithmetic.py calls it but
\* does not define it): the authoritative series when it reaches end_date,
\* else the series extended by the preliminary revisions.
GetRevRainfallDict(src, end_date, final_rev) ==
    IF InDict(GetRainfallDict(src), end_date)
    THEN [dict |-> GetRainfallDict(src), is_final |-> TRUE]
    ELSE [dict |-> MkDict(SeriesFirst, AddDays(src.finalLast, src.prelimDays), src.pattern),
          is_final |-> FALSE]

\* utils.listify_period: every date from start to end, both included;
\* an InvalidRangeError when end < start.
ListifyOk(start, end) == ToOrdinal(start) <= ToOrdinal(end)

RECURSIVE DatesFrom(_, _)
DatesFrom(dt, n) == IF n <= 0 THEN <<>> ELSE <<dt>> \o DatesFrom(NextDay(dt), n - 1)

ListifyPeriod(start, end) ==
    DatesFrom(start, ToOrdinal(end) - ToOrdinal(start) + 1)

\* ------------------------------------------------------------ term aggregation

RECURSIVE SeqSum(_)
SeqSum(s) == IF Len(s) = 0 THEN 0 ELSE s[1] + SeqSum(Tail(s))

Min(a, b) == IF a <= b THEN a ELSE b

\* `if daily_cap:` -- None and 0 are both falsy.
CapApplies(daily_cap) == Len(daily_cap) = 1 /\ daily_cap[1] # 0

\* One day's contribution.
DayRain(dict, dt, daily_cap) ==
    IF CapApplies(daily_cap) THEN Min(Lookup(dict, dt), daily_cap[1])
    ELSE Lookup(dict, dt)

\* The list comprehension over the term; a KeyError when a date is absent.
TermOk(dict, dates) == \A i \in DOMAIN dates : InDict(dict, dates[i])

TermRain(dict, dates, daily_cap) ==
    [i \in DOMAIN dates |-> DayRain(dict, dates[i], daily_cap)]

\* Mutant: the status starts out preliminary.
InitialIsFinal_Mutant == FALSE

\* is_final = True
InitialIsFinal == TRUE

\* The series fetched and its status.
Fetch(a, src) ==
    IF a.use_prelim THEN GetRevRainfallDict(src, a.end_date, a.final_rev)
    ELSE [dict |-> GetRainfallDict(src), is_final |-> InitialIsFinal]

\* Mutant: the truncation stops one key short of the last.
EffectiveEnd_Mutant(a, fetched) ==
    IF a.use_prelim /\ ~fetched.is_final /\ ~InDict(fetched.dict, a.end_date)
    THEN PrevDay(fetched.dict.last)
    ELSE a.end_date

\* The end date after the truncation to the end of the data.
EffectiveEnd(a, fetched) ==
    IF a.use_prelim /\ ~fetched.is_final /\ ~InDict(fetched.dict, a.end_date)
    THEN LastKey(fetched.dict)
    ELSE a.end_date

NoYears == <<>>

Raised(kind, handed) ==
    [outcome |-> kind, total |-> 0, count |-> 0, yearly |-> NoYears,
     is_final |-> FALSE, handed |-> handed]

SumPeriodRainfall(a, src) ==
    LET fetched == Fetch(a, src)
        end_date == EffectiveEnd(a, fetched)
        handed == { <<a.start_date, end_date>> }
    IN  IF ~ListifyOk(a.start_date, end_date) THEN Raised("InvalidRangeError", handed)
        ELSE LET dates == ListifyPeriod(a.start_date, end_date)
             IN  IF ~TermOk(fetched.dict, dates) THEN Raised("KeyError", handed)
                 ELSE LET rain == TermRain(fetched.dict, dates, a.daily_cap)
                      IN  [outcome |-> "ok", total |-> SeqSum(rain), count |-> Len(rain),
                           yearly |-> NoYears, is_final |-> fetched.is_final,
                           handed |-> handed]

\* ------------------------------------------------------------ historical replay

\* end_year defaults to start_date.year
EndYearOf(a) == IF Len(a.end_year) = 0 THEN a.start_date.year ELSE a.end_year[1]

\* Mutant: the end date is projected onto the start's year.
HistoricalEndYear_Mutant(start_date, end_date, year) == year

\* The year end_date is projected onto for the term starting in `year`.
HistoricalEndYear(start_date, end_date, year) ==
    year + (end_date.year - start_date.year)

\* Mutant: the error is reported with the years summed so far.
LoopRaised_Mutant(kind, acc, handed) ==
    [outcome |-> kind, total |-> 0, count |-> 0, yearly |-> acc.yearly,
     is_final |-> FALSE, handed |-> handed]

\* What the loop does on an error: the exception leaves the function, and
\* yearly_rainfall, a local, goes with it.
LoopRaised(kind, acc, handed) == Raised(kind, handed)

\* Mutant: range(start_year, end_year)
LoopDone_Mutant(year, end_year) == year >= end_year

\* range(start_year, end_year + 1) is exhausted
LoopDone(year, end_year) == year > end_year

RECURSIVE HistoricalLoop(_, _, _, _, _, _, _)
HistoricalLoop(dict, start_date, end_date, daily_cap, year, end_year, acc) ==
    IF LoopDone(year, end_year)
    THEN [outcome |-> "ok", yearly |-> acc.yearly, handed |-> acc.handed]
    ELSE
    LET endYear == HistoricalEndYear(start_date, end_date, year)
    IN  IF ~ReplaceYearOk(start_date, year) \/ ~ReplaceYearOk(end_date, endYear)
        THEN LoopRaised("ValueError", acc, acc.handed)
        ELSE
        LET historical_start == ReplaceYear(start_date, year)
            historical_end == ReplaceYear(end_date, endYear)
            handed == acc.handed \cup { <<historical_start, historical_end>> }
        IN  IF ~ListifyOk(historical_start, historical_end)
            THEN LoopRaised("InvalidRangeError", acc, handed)
            ELSE
            LET year_term == ListifyPeriod(historical_start, historical_end)
            IN  IF ~TermOk(dict, year_term) THEN LoopRaised("KeyError", acc, handed)
                ELSE
                LET yearly_rain == TermRain(dict, year_term, daily_cap)
                    entry == <<SeqSum(yearly_rain), Len(yearly_rain)>>
                IN  HistoricalLoop(dict, start_date, end_date, daily_cap, year + 1,
                                   end_year,
                                   [yearly |-> acc.yearly @@ (year :> entry),
                                    handed |-> handed])

BuildHistoricalRainfallDict(a, src) ==
    LET fetched == Fetch(a, src)
        end_date == EffectiveEnd(a, fetched)
        loop == HistoricalLoop(fetched.dict, a.start_date, end_date, a.daily_cap,
                               a.start_year, EndYearOf(a),
                               [yearly |-> NoYears, handed |-> {}])
    IN  IF loop.outcome = "ok"
        THEN [outcome |-> "ok", total |-> 0, count |-> 0, yearly |-> loop.yearly,
              is_final |-> fetched.is_final, handed |-> loop.handed]
        ELSE loop

\* ------------------------------------------------------------ windowed table

\* A value of the result column: a number num/den, or NaN.
Number(n) == [nan |-> FALSE, num |-> n, den |-> 1]

NaN == [nan |-> TRUE, num |-> 0, den |-> 0]

\* str(year)+'-'+str(month)+'-'+str(day): the three numbers, unpadded.
DateString(y, dt) == <<y, dt.month, dt.day>>

\* The slice bound pandas parses from the string; no date, no slice.
ParseOk(str) == IsValidDate(str[1], str[2], str[3])

ParseDate(str) == MkDate(str[1], str[2], str[3])

\* if ps.year < pe.year: the period crosses Jan 1
RightYear(ps, pe, year) == IF ps.year < pe.year THEN year + 1 ELSE year

\* newdf[left:right][peril]: the values of the rows from left through right.
Slice(table, left, right) ==
    LET lo == IF ToOrdinal(left) < ToOrdinal(table.first) THEN table.first ELSE left
        hi == IF ToOrdinal(right) > ToOrdinal(table.last) THEN table.last ELSE right
    IN  IF ToOrdinal(lo) > ToOrdinal(hi) THEN <<>>
        ELSE [i \in 1..(ToOrdinal(hi) - ToOrdinal(lo) + 1) |->
                 table.pattern[(ToOrdinal(AddDays(lo, i - 1)) % 2) + 1]]

\* Series.sum(): 0 over no rows.
ChunkSum(values) == Number(SeqSum(values))

\* Mutant: the mean over no rows is 0.
ChunkMean_Mutant(values) ==
    [nan |-> FALSE, num |-> SeqSum(values), den |-> IF Len(values) = 0 THEN 1 ELSE Len(values)]

\* Series.mean(): NaN over no rows.
ChunkMean(values) ==
    IF Len(values) = 0 THEN NaN
    ELSE [nan |-> FALSE, num |-> SeqSum(values), den |-> Len(values)]

Reduce(reducer, values) ==
    IF reducer = "sum" THEN ChunkSum(values) ELSE ChunkMean(values)

\* Mutant: range(ps.year - yrs, ps.year + 1)
LookbackLast_Mutant(ps) == ps.year

\* range(ps.year - yrs, ps.year) ends before ps.year
LookbackLast(ps) == ps.year - 1

DfRaised(kind) == [outcome |-> kind, rows |-> <<>>]

RECURSIVE PeriodLoop(_, _, _, _, _, _)
PeriodLoop(table, a, reducer, year, last, rows) ==
    IF year > last THEN [outcome |-> "ok", rows |-> rows]
    ELSE
    LET left == DateString(year, a.ps)
        right == DateString(RightYear(a.ps, a.pe, year), a.pe)
    IN  IF ~ParseOk(left) \/ ~ParseOk(right) THEN DfRaised("DateParseError")
        ELSE IF a.peril \notin table.columns THEN DfRaised("KeyError")
        ELSE LET sumChunk == Slice(table, ParseDate(left), ParseDate(right))
             IN  PeriodLoop(table, a, reducer, year + 1, last,
                            Append(rows, [year |-> year,
                                          value |-> Reduce(reducer, sumChunk)]))

SumPeriodDf(table, a) ==
    PeriodLoop(table, a, "sum", a.ps.year - a.yrs, LookbackLast(a.ps), <<>>)

AvgPeriodDf(table, a) ==
    PeriodLoop(table, a, "mean", a.ps.year - a.yrs, LookbackLast(a.ps), <<>>)

\* ------------------------------------------------------------ specification

NotCalled == <<>>

Idle == <<>>

\* The rainfall functions, called on one set of arguments and one state of
\* the data source.
Init ==
    /\ args \in Args
    /\ source \in Sources
    /\ sumResult = NotCalled
    /\ histResult = NotCalled
    /\ dfArgs = Idle /\ df = Idle /\ sumDfResult = NotCalled /\ avgDfResult = NotCalled

CallSumPeriodRainfall ==
    /\ sumResult = NotCalled
    /\ sumResult' = <<SumPeriodRainfall(args, source)>>
    /\ UNCHANGED <<args, source, histResult, dfArgs, df, sumDfResult, avgDfResult>>

CallBuildHistoricalRainfallDict ==
    /\ histResult = NotCalled
    /\ histResult' = <<BuildHistoricalRainfallDict(args, source)>>
    /\ UNCHANGED <<args, source, sumResult, dfArgs, df, sumDfResult, avgDfResult>>

Next == CallSumPeriodRainfall \/ CallBuildHistoricalRainfallDict

Spec == Init /\ [][Next]_vars

\* The windowed reductions, called on one table and one set of arguments.
InitDf ==
    /\ dfArgs \in DfArgs
    /\ df \in Tables
    /\ sumDfResult = NotCalled
    /\ avgDfResult = NotCalled
    /\ args = Idle /\ source = Idle /\ sumResult = NotCalled /\ histResult = NotCalled

CallSumPeriodDf ==
    /\ sumDfResult = NotCalled
    /\ sumDfResult' = <<SumPeriodDf(df, dfArgs)>>
    /\ UNCHANGED <<args, source, sumResult, histResult, dfArgs, df, avgDfResult>>

CallAvgPeriodDf ==
    /\ avgDfResult = NotCalled
    /\ avgDfResult' = <<AvgPeriodDf(df, dfArgs)>>
    /\ UNCHANGED <<args, source, sumResult, histResult, dfArgs, df, sumDfResult>>

NextDf == CallSumPeriodDf \/ CallAvgPeriodDf

SpecDf == InitDf /\ [][NextDf]_vars

\* ------------------------------------------------------------ properties

SumDone == sumResult # NotCalled

HistDone == histResult # NotCalled

SumOk == SumDone /\ sumResult[1].outcome = "ok"

HistOk == HistDone /\ histResult[1].outcome = "ok"

\* The reference the properties compare the results with, stated on the
\* arguments and the data source alone.
RefPrelimLast == AddDays(source.finalLast, source.prelimDays)

RefTruncated ==
    args.use_prelim /\ ToOrdinal(args.end_date) > ToOrdinal(RefPrelimLast)

RefEndUsed == IF RefTruncated THEN RefPrelimLast ELSE args.end_date

RefSeriesLast ==
    IF args.use_prelim /\ ToOrdinal(args.end_date) > ToOrdinal(source.finalLast)
    THEN RefPrelimLast ELSE source.finalLast

\* Days from start's month/day in year y through end's month/day in the
\* year that lies as far from y as end lies from start.
RefTermDays(start, end, y) ==
    ToOrdinal(MkDate(y + (end.year - start.year), end.month, end.day))
    - ToOrdinal(MkDate(y, start.month, start.day)) + 1

RefYears == args.start_year..EndYearOf(args)

IsLeapDay(dt) == dt.month = 2 /\ dt.day = 29

\* C1: with a cap c supplied (c = 0 included), no total exceeds c * count,
\* in sum_period_rainfall and in every year of build_historical_rainfall_dict.
C1_CapBoundsTotal ==
    Len(args.daily_cap) = 1 =>
        /\ SumOk => sumResult[1].total <= args.daily_cap[1] * sumResult[1].count
        /\ HistOk => \A y \in DOMAIN histResult[1].yearly :
               histResult[1].yearly[y][1] <= args.daily_cap[1] * histResult[1].yearly[y][2]

\* The truncation scenario: final data through D, preliminary data through
\* D+3, requested end D+5, use_prelim set.
TruncationScenario ==
    /\ args.use_prelim
    /\ source.prelimDays = 3
    /\ ToOrdinal(args.end_date) = ToOrdinal(source.finalLast) + 5

\* C2 as stated: in the truncation scenario the result is preliminary and the
\* term of every year is exactly 3 days shorter than the requested one.
C2_ThreeDaysShorter ==
    (HistOk /\ TruncationScenario) =>
        /\ ~histResult[1].is_final
        /\ \A y \in DOMAIN histResult[1].yearly :
               histResult[1].yearly[y][2]
                   = RefTermDays(args.start_date, args.end_date, y) - 3

\* C2, amended: in the truncation scenario the result is preliminary, every
\* year start_year..end_year gets the term from start_date's month/day
\* through the month/day of D+3, and the term of start_date's own year is
\* exactly 2 days shorter than the requested one.
C2_TruncatedToPrelimEnd ==
    (HistOk /\ TruncationScenario) =>
        /\ ~histResult[1].is_final
        /\ DOMAIN histResult[1].yearly = RefYears
        /\ \A y \in RefYears :
               /\ histResult[1].yearly[y][2]
                      = RefTermDays(args.start_date, AddDays(source.finalLast, 3), y)
               /\ y = args.start_date.year =>
                      histResult[1].yearly[y][2]
                          = ToOrdinal(args.end_date) - ToOrdinal(args.start_date) + 1 - 2

C2_Witness ==
    /\ HistOk /\ TruncationScenario
    /\ Cardinality(DOMAIN histResult[1].yearly) >= 2
    /\ args.start_date.year \in DOMAIN histResult[1].yearly

\* C3: the keys of the returned map are exactly start_year..end_year
\* (end_year defaulting to start_date.year) and the count of year y is the
\* number of days from start_date projected onto y through the end date
\* projected onto y + (end.year - start.year); 06-01..06-10 counts 10 in
\* each of 2000..2002 and 12-25..01-05 counts 12 for 2000.
C3_YearsAndCounts ==
    HistOk =>
        /\ DOMAIN histResult[1].yearly = RefYears
        /\ \A y \in RefYears :
               histResult[1].yearly[y][2] = RefTermDays(args.start_date, RefEndUsed, y)
        /\ ( /\ args.start_date = MkDate(2002, 6, 1) /\ args.end_date = MkDate(2002, 6, 10)
             /\ ~RefTruncated /\ RefYears = 2000..2002 )
               => \A y \in 2000..2002 : histResult[1].yearly[y][2] = 10
        /\ ( /\ args.start_date = MkDate(2000, 12, 25) /\ args.end_date = MkDate(2001, 1, 5)
             /\ ~RefTruncated /\ RefYears = {2000} )
               => histResult[1].yearly[2000][2] = 12

C3_Witness ==
    /\ HistOk
    /\ args.start_date = MkDate(2000, 12, 25) /\ args.end_date = MkDate(2001, 1, 5)
    /\ ~RefTruncated /\ DOMAIN histResult[1].yearly = {2000}
    /\ histResult[1].yearly[2000][2] = 12

\* Some year of the range has a projected term, and a date of it is absent
\* from the fetched series.
RefSomeTermDateAbsent ==
    \E y \in RefYears :
        LET ey == y + (RefEndUsed.year - args.start_date.year)
            hs == MkDate(y, args.start_date.month, args.start_date.day)
            he == MkDate(ey, RefEndUsed.month, RefEndUsed.day)
        IN  /\ IsValidDate(hs.year, hs.month, hs.day)
            /\ IsValidDate(he.year, he.month, he.day)
            /\ ToOrdinal(hs) <= ToOrdinal(he)
            /\ \/ ToOrdinal(hs) < ToOrdinal(SeriesFirst)
               \/ ToOrdinal(he) > ToOrdinal(RefSeriesLast)

\* A term the loop handed on for reduction has a date absent from the
\* fetched series.
RefHandedTermDateAbsent ==
    \E r \in histResult[1].handed :
        /\ ToOrdinal(r[1]) <= ToOrdinal(r[2])
        /\ \/ ToOrdinal(r[1]) < ToOrdinal(SeriesFirst)
           \/ ToOrdinal(r[2]) > ToOrdinal(RefSeriesLast)

RefLeapDayProjected ==
    \E y \in RefYears :
        \/ IsLeapDay(args.start_date) /\ ~IsLeap(y)
        \/ /\ IsLeapDay(RefEndUsed)
           /\ ~IsLeap(y + (RefEndUsed.year - args.start_date.year))

\* The series holds every day of the years the terms can touch.
RefSeriesCoversYears ==
    /\ ToOrdinal(SeriesFirst) <= ToOrdinal(MkDate(args.start_year, 1, 1))
    /\ ToOrdinal(MkDate(EndYearOf(args) + (RefEndUsed.year - args.start_date.year), 12, 31))
           <= ToOrdinal(RefSeriesLast)

\* C5: a leap day projected onto a year that is no leap year gets a
\* substitute date, so that year still has its entry in the result.
C5_LeapDaySubstitute ==
    (HistDone /\ RefLeapDayProjected /\ RefSeriesCoversYears) =>
        /\ histResult[1].outcome = "ok"
        /\ DOMAIN histResult[1].yearly = RefYears

\* C8: without use_prelim only the authoritative series is read (a term
\* beyond its last date fails even where preliminary data exists), every
\* successful return is final, and the end date is the requested one.
C8_NoPrelimIsFinal ==
    ~args.use_prelim =>
        /\ SumOk => /\ sumResult[1].is_final
                    /\ sumResult[1].handed = { <<args.start_date, args.end_date>> }
                    /\ sumResult[1].count
                           = ToOrdinal(args.end_date) - ToOrdinal(args.start_date) + 1
        /\ HistOk => /\ histResult[1].is_final
                     /\ \A r \in histResult[1].handed :
                            r[2].month = args.end_date.month /\ r[2].day = args.end_date.day
        /\ ToOrdinal(args.end_date) > ToOrdinal(source.finalLast) =>
               /\ ~SumOk
               /\ args.start_date.year \in RefYears => ~HistOk

C8_Witness ==
    /\ ~args.use_prelim /\ Len(args.final_rev) = 1 /\ Len(args.daily_cap) = 1
    /\ SumOk /\ HistOk
    /\ Cardinality(DOMAIN histResult[1].yearly) >= 2
    /\ sumResult[1].is_final /\ histResult[1].is_final

\* C9: every range handed to listify_period has start <= end.
C9_RangesOrdered ==
    /\ SumDone => \A r \in sumResult[1].handed : ToOrdinal(r[1]) <= ToOrdinal(r[2])
    /\ HistDone => \A r \in histResult[1].handed : ToOrdinal(r[1]) <= ToOrdinal(r[2])

\* C10: with start_year = end_year = start_date.year the historical map has
\* the single entry (total, count) of sum_period_rainfall and the same
\* is_final, and the two calls raise in the same cases.
C10_SingleYearMatchesSum ==
    ( /\ SumDone /\ HistDone
      /\ args.start_year = args.start_date.year
      /\ EndYearOf(args) = args.start_date.year ) =>
        /\ sumResult[1].outcome = histResult[1].outcome
        /\ SumOk =>
             /\ DOMAIN histResult[1].yearly = { args.start_date.year }
             /\ histResult[1].yearly[args.start_date.year]
                    = <<sumResult[1].total, sumResult[1].count>>
             /\ histResult[1].is_final = sumResult[1].is_final

C10_Witness ==
    /\ SumOk /\ HistOk
    /\ args.start_year = args.start_date.year
    /\ EndYearOf(args) = args.start_date.year
    /\ args.end_date.year > args.start_date.year
    /\ args.use_prelim /\ ~sumResult[1].is_final

SumDfOk == sumDfResult # NotCalled /\ sumDfResult[1].outcome = "ok"

AvgDfOk == avgDfResult # NotCalled /\ avgDfResult[1].outcome = "ok"

RowYears(rows) == [i \in DOMAIN rows |-> rows[i].year]

RefLookbackYears ==
    [i \in 1..dfArgs.yrs |-> dfArgs.ps.year - dfArgs.yrs + i - 1]

\* C6: sum_period_df and avg_period_df return one row per year, keyed by the
\* year, for ps.year - yrs through ps.year - 1 in ascending order, never
\* ps.year itself; yrs = 3 and ps.year = 2020 give 2017, 2018, 2019.
C6_LookbackRows ==
    /\ SumDfOk =>
         /\ RowYears(sumDfResult[1].rows) = RefLookbackYears
         /\ \A i \in DOMAIN sumDfResult[1].rows : sumDfResult[1].rows[i].year # dfArgs.ps.year
         /\ (dfArgs.yrs = 3 /\ dfArgs.ps.year = 2020) =>
                RowYears(sumDfResult[1].rows) = <<2017, 2018, 2019>>
    /\ AvgDfOk =>
         /\ RowYears(avgDfResult[1].rows) = RefLookbackYears
         /\ \A i \in DOMAIN avgDfResult[1].rows : avgDfResult[1].rows[i].year # dfArgs.ps.year
         /\ (dfArgs.yrs = 3 /\ dfArgs.ps.year = 2020) =>
                RowYears(avgDfResult[1].rows) = <<2017, 2018, 2019>>

C6_Witness ==
    /\ SumDfOk /\ AvgDfOk
    /\ dfArgs.yrs = 3 /\ dfArgs.ps.year = 2020
    /\ RowYears(sumDfResult[1].rows) = <<2017, 2018, 2019>>
    /\ RowYears(avgDfResult[1].rows) = <<2017, 2018, 2019>>

\* The window of lookback year y, and whether the table has no row in it.
RefWindowLeft(y) == MkDate(y, dfArgs.ps.month, dfArgs.ps.day)

RefWindowRight(y) ==
    MkDate(y + (IF dfArgs.pe.year > dfArgs.ps.year THEN 1 ELSE 0),
           dfArgs.pe.month, dfArgs.pe.day)

RefWindowEmpty(y) ==
    \/ ToOrdinal(RefWindowRight(y)) < ToOrdinal(df.first)
    \/ ToOrdinal(RefWindowLeft(y)) > ToOrdinal(df.last)

RefWindowsParse ==
    \A i \in 1..dfArgs.yrs :
        LET y == RefLookbackYears[i]
        IN  /\ IsValidDate(y, dfArgs.ps.month, dfArgs.ps.day)
            /\ IsValidDate(RefWindowRight(y).year, dfArgs.pe.month, dfArgs.pe.day)

RefCallable == dfArgs.peril \in df.columns /\ RefWindowsParse

\* C7 as stated: a lookback year whose window holds no row of the table makes
\* neither reducer raise, and its value is NaN for SUM and for MEAN alike.
C7_EmptyWindowNaN ==
    RefCallable =>
        /\ sumDfResult # NotCalled =>
             /\ sumDfResult[1].outcome = "ok"
             /\ \A i \in 1..dfArgs.yrs :
                    RefWindowEmpty(RefLookbackYears[i]) => sumDfResult[1].rows[i].value.nan
        /\ avgDfResult # NotCalled =>
             /\ avgDfResult[1].outcome = "ok"
             /\ \A i \in 1..dfArgs.yrs :
                    RefWindowEmpty(RefLookbackYears[i]) => avgDfResult[1].rows[i].value.nan

\* C7, amended: a lookback year whose window holds no row of the table makes
\* neither reducer raise; its value is NaN for MEAN (avg_period_df) and 0 for
\* SUM (sum_period_df).
C7_EmptyWindowMeanNaNSumZero ==
    RefCallable =>
        /\ sumDfResult # NotCalled =>
             /\ sumDfResult[1].outcome = "ok"
             /\ \A i \in 1..dfArgs.yrs :
                    RefWindowEmpty(RefLookbackYears[i]) =>
                        sumDfResult[1].rows[i].value = Number(0)
        /\ avgDfResult # NotCalled =>
             /\ avgDfResult[1].outcome = "ok"
             /\ \A i \in 1..dfArgs.yrs :
                    RefWindowEmpty(RefLookbackYears[i]) => avgDfResult[1].rows[i].value.nan

\* A call of each reducer with an empty window beside a window that has rows.
C7_Witness ==
    /\ RefCallable /\ SumDfOk /\ AvgDfOk
    /\ \E i, j \in 1..dfArgs.yrs :
           /\ RefWindowEmpty(RefLookbackYears[i])
           /\ ~RefWindowEmpty(RefLookbackYears[j])
           /\ avgDfResult[1].rows[i].value.nan
           /\ ~avgDfResult[1].rows[j].value.nan
           /\ sumDfResult[1].rows[j].value.num > 0

====
